---- MODULE Spec2Model ----
(***************************************************************************)
(* Finger-joint coordination, edge generation and 2D layout packing of the *)
(* house_maker laser-cut box generator.                                    *)
(*                                                                         *)
(* Lengths are exact integers in one length unit; the fractions the code   *)
(* forms (0.8*F, 0.3*F, 2.5*F, 1.5*F, gaps (L - N*F)/(N+1)) are kept exact   *)
(* by cross-multiplication or as numerators over a stated denominator, so  *)
(* the model is the code over the rationals (no float rounding).           *)
(* The gable angle theta enters the code only through                      *)
(*   gable_peak_height = (y/2)*tan(theta),                                 *)
(*   base_roof_width   = (y/2)/cos(theta);                                 *)
(* the model draws (y, gable_peak_height, base_roof_width) from the        *)
(* triples with (y/2)^2 + peak^2 = base^2, i.e. the angles at which both   *)
(* are rational.                                                           *)
(***************************************************************************)
EXTENDS Integers, Sequences, FiniteSets

VARIABLES
    geometry,         \* HouseGeometry: the base parameters and derived values
    single_joints,    \* MultiFingerJointGenerator.single_joints
    \* --- one run of the joint distribution algorithm ---
    jpc,              \* "start" | "positions" | "done"
    edge_length,      \* argument edge_length
    offset,           \* argument offset
    direct,           \* TRUE: calculate_joint_positions called with a caller-chosen count
    joint_count,      \* the count passed to the current calculate_joint_positions call
    optimal_count,    \* what calculate_optimal_joint_count returned (0: not called)
    retries,          \* recursive calls of calculate_joint_positions made so far
    joint_positions,  \* the returned joint set
    \* --- panel generation ---
    panels,           \* panel name -> generated outline data, or NotGenerated
    \* --- layout packer (calculate_layout_positions) ---
    pack,             \* the packer's local state
    \* --- one call of a panel generation entry point with any panel name ---
    request,          \* the call and how it ended
    \* --- one HouseGeometry object and the calls made on it ---
    validation        \* validate_geometry's outcome, the dimensions handed out

vars == << geometry, single_joints, jpc, edge_length, offset, direct, joint_count,
           optimal_count, retries, joint_positions, panels, pack, request,
           validation >>

jointVars == << jpc, edge_length, offset, direct, joint_count, optimal_count,
                retries, joint_positions >>

----------------------------------------------------------------------------
(* Bounds of the model *)

MaxFinger == 10
MaxEdgeLength == 130
MaxOffset == 2
MaxJointCount == 8

----------------------------------------------------------------------------
(* Helpers *)

Max2(a, b) == IF a >= b THEN a ELSE b
Min2(a, b) == IF a <= b THEN a ELSE b

----------------------------------------------------------------------------
(* Geometry Model: HouseGeometry.__init__ and _calculate_derived_dimensions. *)
(* peak and base stand for (y/2)*tan(theta) and (y/2)/cos(theta).            *)

HouseGeometry(x, y, z, peak, base, thickness, finger_length, kerf) ==
    [ x |-> x, y |-> y, z |-> z,
      thickness |-> thickness, finger_length |-> finger_length, kerf |-> kerf,
      gable_peak_height |-> peak,
      total_gable_height |-> z + peak,
      roof_panel_length |-> x + 6 * thickness,
      base_roof_width |-> base,
      roof_panel_left_width |-> base + 4 * thickness,
      roof_panel_right_width |-> base + 3 * thickness,
      x_kerf |-> IF kerf > 0 THEN x + kerf ELSE x,
      y_kerf |-> IF kerf > 0 THEN y + kerf ELSE y,
      z_kerf |-> IF kerf > 0 THEN z + kerf ELSE z,
      roof_panel_left_width_kerf |->
          IF kerf > 0 THEN base + 4 * thickness + kerf ELSE base + 4 * thickness,
      roof_panel_right_width_kerf |->
          IF kerf > 0 THEN base + 3 * thickness + kerf ELSE base + 3 * thickness ]

----------------------------------------------------------------------------
(* MultiFingerJointGenerator.__init__: kerf-compensated thicknesses and the  *)
(* multi-joint parameters.  Fractions of the finger length are kept as      *)
(* tenths: min_joint_spacing10 = 10 * (finger_length * 0.8), and so on.      *)

male_thickness(g) == g.thickness + g.kerf
female_thickness(g) == g.thickness - g.kerf

max_joints_per_edge == 7
(* A variant with no minimum spacing between joints.                         *)
min_joint_spacing10_zero(F) == 0

min_joint_spacing10(F) == 8 * F
min_edge_length_for_multiple10(F) == 25 * F
min_reasonable_gap10(F) == 3 * F

(* A variant that returns the capped fit itself, without rounding down to   *)
(* an odd candidate.                                                        *)
calculate_optimal_joint_count_unrounded(L, F, single) ==
    IF single THEN 1
    ELSE IF 10 * L < min_edge_length_for_multiple10(F) THEN 1
    ELSE Max2(1, Min2((10 * L - 10 * F + min_joint_spacing10(F))
                          \div (10 * F + min_joint_spacing10(F)),
                      max_joints_per_edge))

(* A variant that reserves no space at the ends of the edge.                 *)
calculate_optimal_joint_count_without_end_reserve(L, F, single) ==
    IF single THEN 1
    ELSE IF 10 * L < min_edge_length_for_multiple10(F) THEN 1
    ELSE LET joint_plus_spacing10 == 10 * F + min_joint_spacing10(F)
             fit == (10 * L + min_joint_spacing10(F)) \div joint_plus_spacing10
             max_possible_joints == Min2(fit, max_joints_per_edge)
         IN  IF max_possible_joints >= 7 THEN 7
             ELSE IF max_possible_joints >= 5 THEN 5
             ELSE IF max_possible_joints >= 3 THEN 3
             ELSE 1

(* calculate_optimal_joint_count: the count before any gap retry.            *)
calculate_optimal_joint_count(L, F, single) ==
    IF single THEN 1
    ELSE IF 10 * L < min_edge_length_for_multiple10(F) THEN 1
    ELSE LET reserved_end_space10 == 10 * F
             available_space10 == 10 * L - reserved_end_space10
             joint_plus_spacing10 == 10 * F + min_joint_spacing10(F)
             fit == (available_space10 + min_joint_spacing10(F)) \div joint_plus_spacing10
             max_possible_joints == Min2(fit, max_joints_per_edge)
         IN  IF max_possible_joints >= 7 THEN 7
             ELSE IF max_possible_joints >= 5 THEN 5
             ELSE IF max_possible_joints >= 3 THEN 3
             ELSE 1

(* calculate_joint_positions, one call.  A joint set is                     *)
(*   [count, den, pos]: pos[i] = <<start, end>> as numerators over den.      *)

(* A variant that accepts every gap.                                        *)
GapNeverTooSmall(L, N, F) == FALSE

(* gap_size < min_reasonable_gap, with gap_size = (L - N*F)/(N+1)            *)
GapTooSmall(L, N, F) == 10 * (L - N * F) < min_reasonable_gap10(F) * (N + 1)

(* A variant that retries with one joint fewer.                              *)
RetryCountOneFewer(N) == Max2(1, N - 1)

(* the count of the recursive retry                                         *)
RetryCount(N) == Max2(1, N - 2)

(* A variant that centres the joint's start, not the joint, on the edge.     *)
SingleJointAtMidpoint(L, off, F) ==
    [ count |-> 1, den |-> 2,
      pos |-> << << L + 2 * off, L + 2 * off + 2 * F >> >> ]

(* joint_count == 1: start = (L - F)/2 + offset, over den = 2                *)
SingleCenteredJoint(L, off, F) ==
    [ count |-> 1, den |-> 2,
      pos |-> << << (L - F) + 2 * off, (L - F) + 2 * off + 2 * F >> >> ]

(* A variant that places the joints from gap_size alone, dropping offset.     *)
EvenlySpacedJointsWithoutOffset(L, N, off, F) ==
    [ count |-> N, den |-> N + 1,
      pos |-> [ i \in 1..N |->
                  LET start == i * (L - N * F) + ((i - 1) * F) * (N + 1)
                  IN  << start, start + F * (N + 1) >> ] ]

(* A variant that starts the first joint at the start of the edge, with no   *)
(* gap before it.                                                           *)
EvenlySpacedJointsFromEdgeStart(L, N, off, F) ==
    [ count |-> N, den |-> N + 1,
      pos |-> [ i \in 1..N |->
                  LET start == (i - 1) * (L - N * F) + ((i - 1) * F + off) * (N + 1)
                  IN  << start, start + F * (N + 1) >> ] ]

(* N joints with N+1 equal gaps: start_i = gap + offset + i*(F + gap)        *)
EvenlySpacedJoints(L, N, off, F) ==
    [ count |-> N, den |-> N + 1,
      pos |-> [ i \in 1..N |->
                  LET start == i * (L - N * F) + ((i - 1) * F + off) * (N + 1)
                  IN  << start, start + F * (N + 1) >> ] ]

RECURSIVE calculate_joint_positions(_, _, _, _)
calculate_joint_positions(L, N, off, F) ==
    IF N = 1 THEN SingleCenteredJoint(L, off, F)
    ELSE IF GapTooSmall(L, N, F)
         THEN calculate_joint_positions(L, RetryCount(N), off, F)
         ELSE EvenlySpacedJoints(L, N, off, F)

NoJoints == [ count |-> 0, den |-> 1, pos |-> << >> ]

----------------------------------------------------------------------------
(* Joint Configuration Table: get_finger_joint_configuration.               *)
(* Male / Female / Smooth are the code's True / False / None.               *)

Male == "Male"
Female == "Female"
Smooth == "None"

Panels == { "floor", "side_wall_left", "side_wall_right", "gable_wall_front",
            "gable_wall_back", "roof_panel_left", "roof_panel_right" }

(* A variant that follows the docstring's "Gable walls: sides=male" for the  *)
(* gable walls while the side walls keep their Male vertical edges.          *)
joint_configuration_gable_sides_male ==
    [ floor |->
        [ bottom |-> Male, right |-> Male, top |-> Male, left |-> Male ],
      side_wall_left |->
        [ bottom |-> Female, right |-> Male, top |-> Smooth, left |-> Male ],
      side_wall_right |->
        [ bottom |-> Female, right |-> Male, top |-> Smooth, left |-> Male ],
      gable_wall_front |->
        [ bottom |-> Female, right |-> Male, roof_right |-> Male,
          roof_left |-> Male, left |-> Male ],
      gable_wall_back |->
        [ bottom |-> Female, right |-> Male, roof_right |-> Male,
          roof_left |-> Male, left |-> Male ],
      roof_panel_left |->
        [ gable_edge |-> Female, left |-> Smooth, outer |-> Smooth, right |-> Smooth,
          internal_cutouts |-> << "vertical", "vertical" >> ],
      roof_panel_right |->
        [ gable_edge |-> Male, left |-> Smooth, outer |-> Smooth, right |-> Smooth,
          internal_cutouts |-> << "vertical", "vertical" >> ] ]

get_finger_joint_configuration ==
    [ floor |->
        [ bottom |-> Male, right |-> Male, top |-> Male, left |-> Male ],
      side_wall_left |->
        [ bottom |-> Female, right |-> Male, top |-> Smooth, left |-> Male ],
      side_wall_right |->
        [ bottom |-> Female, right |-> Male, top |-> Smooth, left |-> Male ],
      gable_wall_front |->
        [ bottom |-> Female, right |-> Female, roof_right |-> Male,
          roof_left |-> Male, left |-> Female ],
      gable_wall_back |->
        [ bottom |-> Female, right |-> Female, roof_right |-> Male,
          roof_left |-> Male, left |-> Female ],
      roof_panel_left |->
        [ gable_edge |-> Female, left |-> Smooth, outer |-> Smooth, right |-> Smooth,
          internal_cutouts |-> << "vertical", "vertical" >> ],
      roof_panel_right |->
        [ gable_edge |-> Male, left |-> Smooth, outer |-> Smooth, right |-> Smooth,
          internal_cutouts |-> << "vertical", "vertical" >> ] ]

(* get_panel_dimensions: panel -> <<width, height>>                          *)
get_panel_dimensions(g) ==
    [ floor |-> << g.x_kerf, g.y_kerf >>,
      side_wall_left |-> << g.x_kerf, g.z_kerf >>,
      side_wall_right |-> << g.x_kerf, g.z_kerf >>,
      gable_wall_front |-> << g.y_kerf + 2 * g.thickness, g.total_gable_height >>,
      gable_wall_back |-> << g.y_kerf + 2 * g.thickness, g.total_gable_height >>,
      roof_panel_left |-> << g.roof_panel_length, g.roof_panel_left_width_kerf >>,
      roof_panel_right |-> << g.roof_panel_length, g.roof_panel_right_width_kerf >> ]

----------------------------------------------------------------------------
(* Joint Direction Resolver: _get_joint_direction.  Every branch of the     *)
(* code sets outward_direction = -1.                                        *)

outward_direction(panel_name, edge_index) ==
    IF panel_name \in { "floor", "side_wall_left", "side_wall_right" } THEN -1
    ELSE IF panel_name \in { "gable_wall_front", "gable_wall_back" }
         THEN (IF edge_index \in { 0, 1, 4 } THEN -1 ELSE -1)
    ELSE IF panel_name \in { "roof_panel_left", "roof_panel_right" } THEN -1
    ELSE -1

(* A variant that returns the outward direction for both joint types.        *)
joint_direction_always_outward(panel_name, edge_name, edge_index, is_male) ==
    outward_direction(panel_name, edge_index)

get_joint_direction(panel_name, edge_name, edge_index, is_male) ==
    IF is_male THEN outward_direction(panel_name, edge_index)
    ELSE -outward_direction(panel_name, edge_index)

----------------------------------------------------------------------------
(* Edge Path Generator: generate_multi_joint_edge.                          *)
(* Corner coordinates are kept doubled (a corner <<cx, cy>> is the point     *)
(* (cx/2, cy/2)), so that the gable peak at width/2 is exact.  An           *)
(* axis-aligned edge has an integer length; a sloped edge (the gable roof   *)
(* edges) is known by 4 * length^2 = dx2^2 + dy2^2.                          *)

Abs(a) == IF a >= 0 THEN a ELSE -a
Sign(a) == IF a > 0 THEN 1 ELSE IF a < 0 THEN -1 ELSE 0

IsGableWall(panel_name) == panel_name \in { "gable_wall_front", "gable_wall_back" }

(* A variant that extrudes every joint by the male thickness.                *)
joint_thickness_always_male(g, is_male) == male_thickness(g)

(* joint_thickness = self.male_thickness if is_male else self.female_thickness *)
joint_thickness(g, is_male) ==
    IF is_male THEN male_thickness(g) ELSE female_thickness(g)

(* the straight pass-through: no joint                                      *)
StraightEdge(edge_name, has_joint, is_male, dx2, dy2) ==
    [ edge_name |-> edge_name, has_joint |-> has_joint, is_male |-> is_male,
      sloped |-> (dx2 # 0 /\ dy2 # 0), len_sq4 |-> dx2 * dx2 + dy2 * dy2,
      edge_length |-> IF dx2 # 0 /\ dy2 # 0 THEN 0 ELSE (Abs(dx2) + Abs(dy2)) \div 2,
      calc_length |-> 0, offset |-> 0, thickness |-> 0,
      ux |-> Sign(dx2), uy |-> Sign(dy2), vx |-> 0, vy |-> 0,
      from_midpoint |-> FALSE, joints |-> NoJoints ]

(* A variant that takes an edge for too short only below the finger length.  *)
edge_too_short_below_finger_length(Fl, sloped, len_sq4, length) ==
    IF sloped THEN len_sq4 < 4 * Fl * Fl ELSE length < Fl

(* edge_length < self.finger_length * 1.5; a sloped edge is compared by      *)
(* 4 * length^2 < 9 * F^2                                                    *)
edge_too_short(Fl, sloped, len_sq4, length) ==
    IF sloped THEN len_sq4 < 9 * Fl * Fl ELSE 10 * length < 15 * Fl

generate_multi_joint_edge(g, single, start_point, end_point, has_joint, is_male, thickness_direction, panel_name, edge_name) ==
    LET dx2 == end_point[1] - start_point[1]
        dy2 == end_point[2] - start_point[2]
        sloped == dx2 # 0 /\ dy2 # 0
        len_sq4 == dx2 * dx2 + dy2 * dy2
        length == (Abs(dx2) + Abs(dy2)) \div 2      \* axis-aligned edges only
        Fl == g.finger_length
        too_short == edge_too_short(Fl, sloped, len_sq4, length)
        ux == Sign(dx2)
        uy == Sign(dy2)
        gable_bottom == IsGableWall(panel_name) /\ edge_name = "bottom"
        gable_roof == IsGableWall(panel_name) /\ edge_name \in { "roof_left", "roof_right" }
        calc_length == IF gable_bottom THEN length - 2 * g.thickness ELSE length
        off == IF gable_bottom THEN g.thickness ELSE 0
        count == IF gable_roof THEN 1
                 ELSE calculate_optimal_joint_count(calc_length, Fl, single)
    IN  IF ~has_joint \/ too_short
        THEN StraightEdge(edge_name, has_joint, is_male, dx2, dy2)
        ELSE [ edge_name |-> edge_name, has_joint |-> has_joint, is_male |-> is_male,
               sloped |-> sloped, len_sq4 |-> len_sq4,
               edge_length |-> IF sloped THEN 0 ELSE length,
               calc_length |-> IF sloped THEN 0 ELSE calc_length,
               offset |-> off,
               thickness |-> joint_thickness(g, is_male),
               ux |-> ux, uy |-> uy,
               vx |-> IF thickness_direction = 1 THEN -uy ELSE uy,
               vy |-> IF thickness_direction = 1 THEN ux ELSE -ux,
               \* On a sloped edge the one centred joint is
               \* [(length - F)/2, (length + F)/2]: kept as offsets from the
               \* edge midpoint, [-F/2, +F/2], since length is irrational.
               from_midpoint |-> sloped,
               joints |-> IF sloped
                          THEN [ count |-> 1, den |-> 2, pos |-> << << -Fl, Fl >> >> ]
                          ELSE calculate_joint_positions(calc_length, count, off, Fl) ]

(* generate_multi_joint_edge, the path segments: per joint an "L" to the     *)
(* joint start on the edge (only if joint_start > current_pos), to the      *)
(* joint start extruded, to the joint end extruded and back to the joint    *)
(* end on the edge; then the "L" to the end point.  A point of the path is  *)
(* [at, extruded]: its distance along the edge as the joint set keeps it    *)
(* (a numerator over joints.den, from the edge midpoint on a sloped edge)   *)
(* and whether it is moved out by the joint thickness.                      *)

(* A variant that never emits the move to the joint start on the edge.       *)
RECURSIVE joint_path_parts_without_move(_, _, _)
joint_path_parts_without_move(js, first_moves, i) ==
    IF i > js.count THEN << >>
    ELSE << [ at |-> js.pos[i][1], extruded |-> TRUE ],
            [ at |-> js.pos[i][2], extruded |-> TRUE ],
            [ at |-> js.pos[i][2], extruded |-> FALSE ] >>
         \o joint_path_parts_without_move(js, first_moves, i + 1)

(* first_moves: joint_start > current_pos for the first joint, current_pos   *)
(* being 0.0; for the later joints current_pos is the joint end before.      *)
RECURSIVE joint_path_parts(_, _, _)
joint_path_parts(js, first_moves, i) ==
    IF i > js.count THEN << >>
    ELSE LET moves == IF i = 1 THEN first_moves
                      ELSE js.pos[i][1] > js.pos[i - 1][2]
         IN  (IF moves THEN << [ at |-> js.pos[i][1], extruded |-> FALSE ] >>
              ELSE << >>)
             \o << [ at |-> js.pos[i][1], extruded |-> TRUE ],
                   [ at |-> js.pos[i][2], extruded |-> TRUE ],
                   [ at |-> js.pos[i][2], extruded |-> FALSE ] >>
             \o joint_path_parts(js, first_moves, i + 1)

(* the path of one edge: the joints' points, then the end point              *)
edge_path(g, e, end_point) ==
    LET first_moves ==
            IF e.joints.count = 0 THEN FALSE
            ELSE IF e.from_midpoint
                 THEN e.len_sq4 > 4 * g.finger_length * g.finger_length
                 ELSE e.joints.pos[1][1] > 0
    IN  [ parts |-> joint_path_parts(e.joints, first_moves, 1),
          end_point |-> end_point ]

(* FingerJointGenerator.generate_edge_with_joint (finger_joints.py), the     *)
(* single-joint edge generator: a straight line without a joint or below    *)
(* 1.5 * finger_length, else one joint centred on the edge,                 *)
(* [(length - F)/2, (length + F)/2], kept as offsets from the edge          *)
(* midpoint over 2.                                                         *)
generate_edge_with_joint(g, start_point, end_point, has_joint, is_male, thickness_direction) ==
    LET dx2 == end_point[1] - start_point[1]
        dy2 == end_point[2] - start_point[2]
        len_sq4 == dx2 * dx2 + dy2 * dy2
        Fl == g.finger_length
    IN  IF ~has_joint \/ len_sq4 < 9 * Fl * Fl
        THEN [ has_joint |-> has_joint, is_male |-> is_male, len_sq4 |-> len_sq4,
               thickness |-> 0, vx |-> 0, vy |-> 0,
               from_midpoint |-> FALSE, joints |-> NoJoints ]
        ELSE [ has_joint |-> has_joint, is_male |-> is_male, len_sq4 |-> len_sq4,
               thickness |-> joint_thickness(g, is_male),
               vx |-> IF thickness_direction = 1 THEN -Sign(dy2) ELSE Sign(dy2),
               vy |-> IF thickness_direction = 1 THEN Sign(dx2) ELSE -Sign(dx2),
               from_midpoint |-> TRUE,
               joints |-> [ count |-> 1, den |-> 2, pos |-> << << -Fl, Fl >> >> ] ]

----------------------------------------------------------------------------
(* Panel Outline Generator: EnhancedHousePanelGenerator.                    *)
(* Panels are generated at position (0, 0).                                 *)

RectangleCorners(width, height) ==
    << << 0, 0 >>, << 2 * width, 0 >>, << 2 * width, 2 * height >>, << 0, 2 * height >> >>

RectangleEdgeNames == << "bottom", "right", "top", "left" >>
GableEdgeNames == << "bottom", "right", "roof_right", "roof_left", "left" >>
RoofEdgeNames == << "gable_edge", "right", "outer", "left" >>

(* How a call that raises ends: no outline, the exception's class.           *)
Raised(exception) == [ generated |-> FALSE, raised |-> exception ]

(* MultiFingerJointGenerator.__init__: the internal cutouts' dimensions       *)
cutout_thickness(g) == g.thickness - g.kerf
cutout_length(g) == g.finger_length - g.kerf

(* generate_internal_female_cutout: a rectangle about its centre; the        *)
(* centre is kept doubled, like the corners.                                *)
generate_internal_female_cutout(g, center_x2, center_y2, orientation) ==
    [ center_x2 |-> center_x2, center_y2 |-> center_y2, orientation |-> orientation,
      width |-> IF orientation = "horizontal" THEN cutout_length(g)
                ELSE cutout_thickness(g),
      height |-> IF orientation = "horizontal" THEN cutout_thickness(g)
                 ELSE cutout_length(g) ]

(* A variant that centres the left panel's cutouts like the right panel's.   *)
generate_internal_cutouts_same_centre(g, panel_name, cutouts) ==
    IF panel_name \in { "roof_panel_left", "roof_panel_right" }
    THEN [ i \in 1..Min2(Len(cutouts), 2) |->
             generate_internal_female_cutout(g,
                 IF i = 1 THEN 5 * g.thickness
                 ELSE 2 * g.roof_panel_length - 5 * g.thickness,
                 g.base_roof_width, cutouts[i]) ]
    ELSE << >>

(* _generate_internal_cutouts, for a panel at position (0, 0): the first     *)
(* cutout 2.5 * thickness from the start of the panel length, the second    *)
(* 2.5 * thickness from its end; entries past the second are skipped.       *)
generate_internal_cutouts(g, panel_name, cutouts) ==
    IF panel_name \in { "roof_panel_left", "roof_panel_right" }
    THEN LET cutout_center_y2 ==
                 IF panel_name = "roof_panel_left"
                 THEN 2 * g.thickness + g.base_roof_width
                 ELSE g.base_roof_width
         IN  [ i \in 1..Min2(Len(cutouts), 2) |->
                 generate_internal_female_cutout(g,
                     IF i = 1 THEN 5 * g.thickness
                     ELSE 2 * g.roof_panel_length - 5 * g.thickness,
                     cutout_center_y2, cutouts[i]) ]
    ELSE << >>

(* _generate_panel_with_multi_joints: the configuration lookup, the per-edge *)
(* loop, the internal cutouts                                               *)
generate_panel_with_multi_joints(g, single, panel_name, corners, edge_names) ==
    LET panel_config == get_finger_joint_configuration[panel_name]
        n == Len(corners)
        Edge(i) ==
            LET edge_name == edge_names[i]
                start_corner == corners[i]
                end_corner == corners[(i % n) + 1]
                joint_type == IF edge_name \in DOMAIN panel_config
                              THEN panel_config[edge_name] ELSE Smooth
                has_joint == joint_type \in { Male, Female }
                is_male == joint_type = Male
                thickness_direction ==
                    IF has_joint
                    THEN get_joint_direction(panel_name, edge_name, i - 1, is_male)
                    ELSE 1
            IN  generate_multi_joint_edge(g, single, start_corner, end_corner,
                    has_joint, is_male, thickness_direction, panel_name, edge_name)
    IN  IF panel_name \notin DOMAIN get_finger_joint_configuration
        THEN Raised("FingerJointError")
        ELSE [ generated |-> TRUE, corners |-> corners,
               edges |-> [ i \in 1..Len(edge_names) |-> Edge(i) ],
               \* path = "M corners[0]" + the edges' segments + " Z"
               path |-> [ move_to |-> corners[1],
                          edges |-> [ i \in 1..Len(edge_names) |->
                                        edge_path(g, Edge(i), corners[(i % n) + 1]) ],
                          closed |-> TRUE ],
               cutouts |-> IF "internal_cutouts" \in DOMAIN panel_config
                           THEN generate_internal_cutouts(g, panel_name,
                                    panel_config["internal_cutouts"])
                           ELSE << >> ]

(* generate_floor_panel: width = geometry.length, height = geometry.width    *)
generate_floor_panel(g, single) ==
    generate_panel_with_multi_joints(g, single, "floor",
        RectangleCorners(g.x, g.y), RectangleEdgeNames)

(* generate_wall_panel                                                      *)
generate_wall_panel(g, single, wall_type) ==
    LET dims == get_panel_dimensions(g)[wall_type]
    IN  IF wall_type \notin DOMAIN get_panel_dimensions(g)
        THEN Raised("KeyError")                  \* panel_dimensions[wall_type]
        ELSE generate_panel_with_multi_joints(g, single, wall_type,
                 RectangleCorners(dims[1], dims[2]), RectangleEdgeNames)

(* generate_gable_wall_panel: the five-corner house profile                 *)
generate_gable_wall_panel(g, single, gable_type) ==
    LET wall_height == g.z
        dims == get_panel_dimensions(g)[gable_type]
        width == dims[1]
        total_height == dims[2]
        corners == << << 0, 0 >>, << 2 * width, 0 >>, << 2 * width, 2 * wall_height >>,
                      << width, 2 * total_height >>, << 0, 2 * wall_height >> >>
    IN  IF gable_type \notin DOMAIN get_panel_dimensions(g)
        THEN Raised("KeyError")                  \* panel_dimensions[gable_type]
        ELSE generate_panel_with_multi_joints(g, single, gable_type, corners,
                                              GableEdgeNames)

(* generate_roof_panel                                                      *)
generate_roof_panel(g, single, roof_type) ==
    LET roof_panel_width == IF roof_type = "roof_panel_right"
                            THEN g.roof_panel_right_width_kerf
                            ELSE g.roof_panel_left_width_kerf
    IN  generate_panel_with_multi_joints(g, single, roof_type,
            RectangleCorners(g.roof_panel_length, roof_panel_width), RoofEdgeNames)

----------------------------------------------------------------------------
(* Panel generation as a process: a geometry is constructed once, then the  *)
(* seven panels are generated in any order.                                 *)

MaxY == 12
MaxZ == 14
MaxHouseFinger == 5
MaxThickness == 3
MaxKerf == 1

(* (y, peak, base) with (y/2)^2 + peak^2 = base^2                            *)
GableShapes ==
    { s \in (1..MaxY) \X (1..MaxY) \X (1..MaxY) :
          s[1] * s[1] + 4 * s[2] * s[2] = 4 * s[3] * s[3] }

Geometries ==
    { HouseGeometry(x, s[1], z, s[2], s[3], t, f, k) :
          x \in { MaxY \div 2, MaxY }, s \in GableShapes,
          z \in { MaxZ }, t \in (MaxThickness - 1)..MaxThickness,
          f \in { 1, 2, MaxHouseFinger }, k \in 0..MaxKerf }

NotGenerated == [ generated |-> FALSE ]
PackIdle == [ pc |-> "idle" ]
RequestIdle == [ pc |-> "idle" ]
ValidationIdle == [ pc |-> "idle" ]

Init ==
    /\ geometry \in Geometries
    /\ single_joints \in BOOLEAN
    /\ panels = [ p \in Panels |-> NotGenerated ]
    /\ jpc = "idle"
    /\ edge_length = 0
    /\ offset = 0
    /\ direct = FALSE
    /\ joint_count = 0
    /\ optimal_count = 0
    /\ retries = 0
    /\ joint_positions = NoJoints
    /\ pack = PackIdle
    /\ request = RequestIdle
    /\ validation = ValidationIdle

GenerateFloorPanel ==
    /\ ~panels["floor"].generated
    /\ panels' = [ panels EXCEPT !["floor"] = generate_floor_panel(geometry, single_joints) ]
    /\ UNCHANGED << geometry, single_joints, jointVars, pack, request, validation >>

GenerateWallPanel(wall_type) ==
    /\ ~panels[wall_type].generated
    /\ panels' = [ panels EXCEPT ![wall_type] =
                       generate_wall_panel(geometry, single_joints, wall_type) ]
    /\ UNCHANGED << geometry, single_joints, jointVars, pack, request, validation >>

GenerateGableWallPanel(gable_type) ==
    /\ ~panels[gable_type].generated
    /\ panels' = [ panels EXCEPT ![gable_type] =
                       generate_gable_wall_panel(geometry, single_joints, gable_type) ]
    /\ UNCHANGED << geometry, single_joints, jointVars, pack, request, validation >>

(* A variant that keeps the cutouts of the roof panel generated before and   *)
(* hands them to the next roof panel.                                       *)
GenerateRoofPanelReusingCutouts(roof_type) ==
    /\ ~panels[roof_type].generated
    /\ LET other == IF roof_type = "roof_panel_left" THEN "roof_panel_right"
                    ELSE "roof_panel_left"
           alone == generate_roof_panel(geometry, single_joints, roof_type)
       IN  panels' = [ panels EXCEPT ![roof_type] =
                         IF panels[other].generated
                         THEN [ alone EXCEPT !.cutouts = panels[other].cutouts ]
                         ELSE alone ]
    /\ UNCHANGED << geometry, single_joints, jointVars, pack, request, validation >>

GenerateRoofPanel(roof_type) ==
    /\ ~panels[roof_type].generated
    /\ panels' = [ panels EXCEPT ![roof_type] =
                       generate_roof_panel(geometry, single_joints, roof_type) ]
    /\ UNCHANGED << geometry, single_joints, jointVars, pack, request, validation >>

Next ==
    \/ GenerateFloorPanel
    \/ \E wall_type \in { "side_wall_left", "side_wall_right" } :
           GenerateWallPanel(wall_type)
    \/ \E gable_type \in { "gable_wall_front", "gable_wall_back" } :
           GenerateGableWallPanel(gable_type)
    \/ \E roof_type \in { "roof_panel_left", "roof_panel_right" } :
           GenerateRoofPanel(roof_type)

Spec == Init /\ [][Next]_vars

----------------------------------------------------------------------------
(* The distribution algorithm as a process: one action per call.            *)
(* get_joint_info_for_edge and generate_multi_joint_edge call               *)
(* calculate_optimal_joint_count and pass its result to                     *)
(* calculate_joint_positions; calculate_joint_positions is also callable    *)
(* with any count.  Each recursive retry is one step.                       *)

JointGeometries ==
    { HouseGeometry(3 * f, 6, 3 * f, 4, 5, 1, f, 0) : f \in 1..MaxFinger }

InitJoint ==
    /\ geometry \in JointGeometries
    /\ single_joints \in BOOLEAN
    /\ edge_length \in 1..MaxEdgeLength
    /\ offset \in 0..MaxOffset
    /\ jpc = "start"
    /\ direct = FALSE
    /\ joint_count = 0
    /\ optimal_count = 0
    /\ retries = 0
    /\ joint_positions = NoJoints
    /\ panels = [ p \in Panels |-> NotGenerated ]
    /\ pack = PackIdle
    /\ request = RequestIdle
    /\ validation = ValidationIdle

(* joint_count = self.calculate_optimal_joint_count(edge_length)            *)
CalculateOptimalJointCount ==
    /\ jpc = "start"
    /\ optimal_count' = calculate_optimal_joint_count(edge_length,
                            geometry.finger_length, single_joints)
    /\ joint_count' = optimal_count'
    /\ direct' = FALSE
    /\ jpc' = "positions"
    /\ UNCHANGED << geometry, single_joints, edge_length, offset, retries,
                    joint_positions, panels, pack, request, validation >>

(* calculate_joint_positions(edge_length, n, offset) with the caller's n     *)
CallJointPositions ==
    /\ jpc = "start"
    /\ \E n \in 1..MaxJointCount : joint_count' = n
    /\ direct' = TRUE
    /\ jpc' = "positions"
    /\ UNCHANGED << geometry, single_joints, edge_length, offset, optimal_count,
                    retries, joint_positions, panels, pack, request, validation >>

(* a call that recurses: gap too small, retry with max(1, joint_count - 2)   *)
RetryJointPositions ==
    /\ jpc = "positions"
    /\ joint_count # 1
    /\ GapTooSmall(edge_length, joint_count, geometry.finger_length)
    /\ joint_count' = RetryCount(joint_count)
    /\ retries' = retries + 1
    /\ UNCHANGED << geometry, single_joints, jpc, edge_length, offset, direct,
                    optimal_count, joint_positions, panels, pack, request, validation >>

(* a call that returns a joint set                                          *)
ReturnJointPositions ==
    /\ jpc = "positions"
    /\ joint_count = 1 \/ ~GapTooSmall(edge_length, joint_count, geometry.finger_length)
    /\ joint_positions' = IF joint_count = 1
                          THEN SingleCenteredJoint(edge_length, offset,
                                                   geometry.finger_length)
                          ELSE EvenlySpacedJoints(edge_length, joint_count, offset,
                                                  geometry.finger_length)
    /\ jpc' = "done"
    /\ UNCHANGED << geometry, single_joints, edge_length, offset, direct,
                    joint_count, optimal_count, retries, panels, pack, request,
                    validation >>

NextJoint ==
    \/ CalculateOptimalJointCount
    \/ CallJointPositions
    \/ RetryJointPositions
    \/ ReturnJointPositions

SpecJoint == InitJoint /\ [][NextJoint]_vars

(* The calls run to completion: calculate_joint_positions is a sequential   *)
(* recursion, each call of which either recurses or returns.                *)
SpecJointFair == SpecJoint /\ WF_vars(NextJoint)

----------------------------------------------------------------------------
(* 2D Layout Packer: calculate_layout_positions and its helpers.            *)
(* A rectangle is <<x, y, width, height>>, a position <<x, y>>.             *)

MaxSpacing == 3
MaxMaterialWidth == 40
MaxMaterialHeight == 30

PanelOrder == << "floor", "side_wall_left", "side_wall_right", "gable_wall_front",
                 "gable_wall_back", "roof_panel_left", "roof_panel_right" >>

NoPosition == << >>

(* A variant that ignores the required spacing.                             *)
rectangles_overlap_no_spacing(rect1, rect2, spacing) ==
    ~ \/ rect1[1] + rect1[3] <= rect2[1]
      \/ rect2[1] + rect2[3] <= rect1[1]
      \/ rect1[2] + rect1[4] <= rect2[2]
      \/ rect2[2] + rect2[4] <= rect1[2]

(* _rectangles_overlap                                                      *)
rectangles_overlap(rect1, rect2, spacing) ==
    LET cond1 == rect1[1] + rect1[3] + spacing <= rect2[1]
        cond2 == rect2[1] + rect2[3] + spacing <= rect1[1]
        cond3 == rect1[2] + rect1[4] + spacing <= rect2[2]
        cond4 == rect2[2] + rect2[4] + spacing <= rect1[2]
    IN  ~(cond1 \/ cond2 \/ cond3 \/ cond4)

(* _position_is_valid                                                       *)
position_is_valid(x, y, width, height, placed_rects, spacing) ==
    \A i \in DOMAIN placed_rects :
        ~rectangles_overlap(<< x, y, width, height >>, placed_rects[i], spacing)

(* A variant that prefers the leftmost position, then the lowest.            *)
LeftmostLowest(valid_positions) ==
    CHOOSE p \in valid_positions :
        \A q \in valid_positions : p[1] < q[1] \/ (p[1] = q[1] /\ p[2] <= q[2])

(* min(valid_positions, key=lambda p: (p[1], p[0]))                          *)
LowestLeftmost(valid_positions) ==
    CHOOSE p \in valid_positions :
        \A q \in valid_positions : p[2] < q[2] \/ (p[2] = q[2] /\ p[1] <= q[1])

MaxRight(placed_rects) ==
    LET rights == { placed_rects[i][1] + placed_rects[i][3] : i \in DOMAIN placed_rects }
    IN  CHOOSE m \in rights : \A r \in rights : r <= m

(* _find_best_position_2d: a position, or NoPosition for None                *)
find_best_position_2d(width, height, placed_rects, spacing, material_width) ==
    IF placed_rects = << >>
    THEN (IF width <= material_width THEN << 0, 0 >> ELSE NoPosition)
    ELSE LET R(i) == placed_rects[i]
             candidate_positions ==
                 { << 0, 0 >> }
                 \cup { << R(i)[1] + R(i)[3] + spacing, R(i)[2] >> : i \in DOMAIN placed_rects }
                 \cup { << R(i)[1], R(i)[2] + R(i)[4] + spacing >> : i \in DOMAIN placed_rects }
                 \cup { << R(i)[1] + R(i)[3] + spacing, R(i)[2] + R(i)[4] + spacing >> :
                            i \in DOMAIN placed_rects }
                 \* the "skyline" loop
                 \cup { << R(i)[1], R(i)[2] + R(i)[4] + spacing >> : i \in DOMAIN placed_rects }
                 \cup { << R(i)[1] + R(i)[3] + spacing, R(i)[2] + R(i)[4] + spacing >> :
                            i \in { j \in DOMAIN placed_rects :
                                        R(j)[1] + R(j)[3] + spacing < material_width } }
             valid_positions ==
                 { p \in candidate_positions :
                       /\ p[1] + width <= material_width
                       /\ position_is_valid(p[1], p[2], width, height, placed_rects, spacing) }
         IN  IF valid_positions # {} THEN LowestLeftmost(valid_positions) ELSE NoPosition

(* _find_best_position: the width-unaware fallback                          *)
find_best_position(width, height, placed_rects, spacing) ==
    IF placed_rects = << >> THEN << 0, 0 >>
    ELSE LET R(i) == placed_rects[i]
             candidate_positions ==
                 { << 0, 0 >> }
                 \cup { << R(i)[1] + R(i)[3] + spacing, R(i)[2] >> : i \in DOMAIN placed_rects }
                 \cup { << R(i)[1], R(i)[2] + R(i)[4] + spacing >> : i \in DOMAIN placed_rects }
             valid_positions ==
                 { p \in candidate_positions :
                       position_is_valid(p[1], p[2], width, height, placed_rects, spacing) }
         IN  IF valid_positions # {} THEN LowestLeftmost(valid_positions)
             ELSE << MaxRight(placed_rects) + spacing, 0 >>

(* A variant that sorts by area alone, largest first.                        *)
SortedPanelsByArea(panel_dims) ==
    LET n == Len(PanelOrder)
        Area(i) == panel_dims[PanelOrder[i]][1] * panel_dims[PanelOrder[i]][2]
        Before(a, b) == Area(a) > Area(b) \/ (Area(a) = Area(b) /\ a < b)
        Rank(i) == 1 + Cardinality({ j \in 1..n : Before(j, i) })
    IN  [ r \in 1..n |-> PanelOrder[CHOOSE i \in 1..n : Rank(i) = r] ]

(* sorted(panels.items(), key=(height, area), reverse=True): a stable sort,  *)
(* equal keys keep the dictionary's order                                   *)
SortedPanels(panel_dims) ==
    LET n == Len(PanelOrder)
        Height(i) == panel_dims[PanelOrder[i]][2]
        Area(i) == panel_dims[PanelOrder[i]][1] * panel_dims[PanelOrder[i]][2]
        KeyGreater(a, b) == Height(a) > Height(b) \/ (Height(a) = Height(b) /\ Area(a) > Area(b))
        KeyEqual(a, b) == Height(a) = Height(b) /\ Area(a) = Area(b)
        Before(a, b) == KeyGreater(a, b) \/ (KeyEqual(a, b) /\ a < b)
        Rank(i) == 1 + Cardinality({ j \in 1..n : Before(j, i) })
    IN  [ r \in 1..n |-> PanelOrder[CHOOSE i \in 1..n : Rank(i) = r] ]

(* the check before placing: some panel's width exceeds the material width  *)
PanelTooWide(panel_dims, material_width) ==
    \E name \in DOMAIN panel_dims : panel_dims[name][1] > material_width

(* A variant without the final width check.                                 *)
LayoutNeverTooWide(placed_rects, material_width) == FALSE

(* the check after placing: max_x > MATERIAL_WIDTH                           *)
LayoutTooWide(placed_rects, material_width) ==
    /\ placed_rects # << >>
    /\ MaxRight(placed_rects) > material_width

PackGeometries == { g \in Geometries : g.finger_length = 1 }

(* no earlier call of calculate_layout_positions                             *)
NoRun == [ pc |-> "none" ]

(* the locals at entry of calculate_layout_positions(geometry, spacing,      *)
(* material_width, material_height); previous is what an earlier call on    *)
(* the same geometry returned or raised                                     *)
EnterLayout(spacing, material_width, material_height, previous) ==
    [ pc |-> "start",
      material_width |-> material_width,
      material_height |-> material_height,
      min_spacing |-> Max2(spacing, 2),
      sorted_panels |-> << >>,
      next |-> 1,
      placed_rects |-> << >>,
      positions |-> << >>,
      placed_names |-> << >>,
      fallback_used |-> FALSE,
      sheets_needed |-> 0,
      previous |-> previous ]

InitPack ==
    /\ geometry \in PackGeometries
    /\ single_joints = FALSE
    /\ panels = [ p \in Panels |-> NotGenerated ]
    /\ jpc = "idle"
    /\ edge_length = 0
    /\ offset = 0
    /\ direct = FALSE
    /\ joint_count = 0
    /\ optimal_count = 0
    /\ retries = 0
    /\ joint_positions = NoJoints
    /\ \E spacing \in 1..MaxSpacing :
       \E material_width \in (MaxMaterialWidth - 12)..MaxMaterialWidth :
           pack = EnterLayout(spacing, material_width, MaxMaterialHeight, NoRun)
    /\ request = RequestIdle
    /\ validation = ValidationIdle

(* max(y + h for x, y, w, h in placed_rects)                                *)
MaxBottom(placed_rects) ==
    LET bottoms == { placed_rects[i][2] + placed_rects[i][4] : i \in DOMAIN placed_rects }
    IN  CHOOSE b \in bottoms : \A c \in bottoms : c <= b

(* max(1, int(max_y / MATERIAL_HEIGHT) + (1 if max_y % MATERIAL_HEIGHT > 0   *)
(* else 0))                                                                 *)
sheets_needed(max_y, material_height) ==
    Max2(1, (max_y \div material_height)
                + (IF max_y % material_height > 0 THEN 1 ELSE 0))

(* lines 403-423: collect the panels, reject a panel wider than the         *)
(* material, sort                                                           *)
StartLayout ==
    /\ pack.pc = "start"
    /\ LET panel_dims == get_panel_dimensions(geometry)
       IN  IF PanelTooWide(panel_dims, pack.material_width)
           THEN pack' = [ pack EXCEPT !.pc = "GeometryError" ]
           ELSE pack' = [ pack EXCEPT !.pc = "placing",
                                      !.sorted_panels = SortedPanels(panel_dims) ]
    /\ UNCHANGED << geometry, single_joints, jointVars, panels, request, validation >>

(* A variant that hands MATERIAL_HEIGHT to the position search as a hard     *)
(* limit: a position that ends below the sheet counts as no position.       *)
PlacePanelWithinSheet ==
    /\ pack.pc = "placing"
    /\ pack.next <= Len(pack.sorted_panels)
    /\ LET panel_name == pack.sorted_panels[pack.next]
           dims == get_panel_dimensions(geometry)[panel_name]
           width == dims[1]
           height == dims[2]
           found == find_best_position_2d(width, height, pack.placed_rects,
                                          pack.min_spacing, pack.material_width)
           pos_2d == IF found # NoPosition /\ found[2] + height > pack.material_height
                     THEN NoPosition ELSE found
           best_pos == IF pos_2d = NoPosition
                       THEN find_best_position(width, height, pack.placed_rects,
                                               pack.min_spacing)
                       ELSE pos_2d
       IN  pack' = [ pack EXCEPT
                       !.positions = Append(@, best_pos),
                       !.placed_names = Append(@, panel_name),
                       !.placed_rects = Append(@, << best_pos[1], best_pos[2], width, height >>),
                       !.fallback_used = @ \/ pos_2d = NoPosition,
                       !.next = @ + 1 ]
    /\ UNCHANGED << geometry, single_joints, jointVars, panels, request, validation >>

(* one iteration of the placement loop, lines 429-441: the position search  *)
(* is given None for material_height                                        *)
PlacePanel ==
    /\ pack.pc = "placing"
    /\ pack.next <= Len(pack.sorted_panels)
    /\ LET panel_name == pack.sorted_panels[pack.next]
           dims == get_panel_dimensions(geometry)[panel_name]
           width == dims[1]
           height == dims[2]
           pos_2d == find_best_position_2d(width, height, pack.placed_rects,
                                           pack.min_spacing, pack.material_width)
           best_pos == IF pos_2d = NoPosition
                       THEN find_best_position(width, height, pack.placed_rects,
                                               pack.min_spacing)
                       ELSE pos_2d
       IN  pack' = [ pack EXCEPT
                       !.positions = Append(@, best_pos),
                       !.placed_names = Append(@, panel_name),
                       !.placed_rects = Append(@, << best_pos[1], best_pos[2], width, height >>),
                       !.fallback_used = @ \/ pos_2d = NoPosition,
                       !.next = @ + 1 ]
    /\ UNCHANGED << geometry, single_joints, jointVars, panels, request, validation >>

(* lines 444-459: the bounding box, the final width check, the return       *)
FinishLayout ==
    /\ pack.pc = "placing"
    /\ pack.next > Len(pack.sorted_panels)
    /\ pack' = IF LayoutTooWide(pack.placed_rects, pack.material_width)
                THEN [ pack EXCEPT !.pc = "GeometryError" ]
                ELSE [ pack EXCEPT !.pc = "returned",
                                   !.sheets_needed =
                                       sheets_needed(MaxBottom(pack.placed_rects),
                                                     pack.material_height) ]
    /\ UNCHANGED << geometry, single_joints, jointVars, panels, request, validation >>

NextPack == StartLayout \/ PlacePanel \/ FinishLayout

SpecPack == InitPack /\ [][NextPack]_vars

----------------------------------------------------------------------------
(* Two calls of calculate_layout_positions on the same geometry, spacing    *)
(* and material width, with different material heights.                     *)

SheetHeights == { MaxMaterialHeight - 20, MaxMaterialHeight }
SheetWidths == { MaxMaterialWidth - 3, MaxMaterialWidth }
SheetGeometries == { g \in PackGeometries : g.kerf = 0 }

InitSheet ==
    /\ geometry \in SheetGeometries
    /\ single_joints = FALSE
    /\ panels = [ p \in Panels |-> NotGenerated ]
    /\ jpc = "idle"
    /\ edge_length = 0
    /\ offset = 0
    /\ direct = FALSE
    /\ joint_count = 0
    /\ optimal_count = 0
    /\ retries = 0
    /\ joint_positions = NoJoints
    /\ \E spacing \in 1..MaxSpacing : \E material_width \in SheetWidths :
       \E material_height \in SheetHeights :
           pack = EnterLayout(spacing, material_width, material_height, NoRun)
    /\ request = RequestIdle
    /\ validation = ValidationIdle

(* the second call: the same arguments but for material_height (a spacing   *)
(* of min_spacing gives the first call's min_spacing again)                 *)
CallWithOtherHeight ==
    /\ pack.pc \in { "returned", "GeometryError" }
    /\ pack.previous = NoRun
    /\ \E material_height \in SheetHeights \ { pack.material_height } :
           pack' = EnterLayout(pack.min_spacing, pack.material_width, material_height,
                               [ pc |-> pack.pc,
                                 positions |-> pack.positions,
                                 placed_names |-> pack.placed_names,
                                 sheets_needed |-> pack.sheets_needed,
                                 material_height |-> pack.material_height ])
    /\ UNCHANGED << geometry, single_joints, jointVars, panels, request, validation >>

NextSheet == StartLayout \/ PlacePanel \/ FinishLayout \/ CallWithOtherHeight

SpecSheet == InitSheet /\ [][NextSheet]_vars

----------------------------------------------------------------------------
(* The panel generation entry points called with any panel name: one of the *)
(* seven configured names or a name the configuration table does not hold.  *)
(* One call per behaviour; request records the call and how it ended.       *)

UnknownPanels == { "porch" }
RequestNames == Panels \cup UnknownPanels

RequestGeometries == { g \in Geometries : g.finger_length = 1 }

InitRequest ==
    /\ geometry \in RequestGeometries
    /\ single_joints \in BOOLEAN
    /\ panels = [ p \in Panels |-> NotGenerated ]
    /\ jpc = "idle"
    /\ edge_length = 0
    /\ offset = 0
    /\ direct = FALSE
    /\ joint_count = 0
    /\ optimal_count = 0
    /\ retries = 0
    /\ joint_positions = NoJoints
    /\ pack = PackIdle
    /\ request = [ pc |-> "ready" ]
    /\ validation = ValidationIdle

Called(entry, panel_name, result) ==
    [ pc |-> "done", entry |-> entry, panel_name |-> panel_name, result |-> result ]

RequestUnchanged ==
    UNCHANGED << geometry, single_joints, jointVars, panels, pack, validation >>

(* generate_wall_panel(position, wall_type)                                 *)
RequestWallPanel(wall_type) ==
    /\ request.pc = "ready"
    /\ request' = Called("generate_wall_panel", wall_type,
                         generate_wall_panel(geometry, single_joints, wall_type))
    /\ RequestUnchanged

(* generate_gable_wall_panel(position, gable_type)                          *)
RequestGableWallPanel(gable_type) ==
    /\ request.pc = "ready"
    /\ request' = Called("generate_gable_wall_panel", gable_type,
                         generate_gable_wall_panel(geometry, single_joints, gable_type))
    /\ RequestUnchanged

(* generate_roof_panel(position, roof_type)                                 *)
RequestRoofPanel(roof_type) ==
    /\ request.pc = "ready"
    /\ request' = Called("generate_roof_panel", roof_type,
                         generate_roof_panel(geometry, single_joints, roof_type))
    /\ RequestUnchanged

(* _generate_panel_with_multi_joints(panel_name, position, corners,          *)
(* edge_names) with a rectangle's corners and either list of four names     *)
RequestPanelWithMultiJoints(panel_name, edge_names) ==
    /\ request.pc = "ready"
    /\ request' = Called("_generate_panel_with_multi_joints", panel_name,
                         generate_panel_with_multi_joints(geometry, single_joints,
                             panel_name, RectangleCorners(geometry.x, geometry.y),
                             edge_names))
    /\ RequestUnchanged

(* _get_joint_direction(panel_name, edge_name, edge_index, is_male): the     *)
(* code has no raising branch, the call always returns a direction          *)
RequestJointDirection(panel_name, edge_index, is_male) ==
    /\ request.pc = "ready"
    /\ request' = [ pc |-> "done", entry |-> "_get_joint_direction",
                    panel_name |-> panel_name, edge_index |-> edge_index,
                    is_male |-> is_male,
                    result |-> [ direction |->
                        get_joint_direction(panel_name, "bottom", edge_index, is_male) ] ]
    /\ RequestUnchanged

NextRequest ==
    \/ \E name \in RequestNames : RequestWallPanel(name)
    \/ \E name \in RequestNames : RequestGableWallPanel(name)
    \/ \E name \in RequestNames : RequestRoofPanel(name)
    \/ \E name \in RequestNames : \E edge_names \in { RectangleEdgeNames, RoofEdgeNames } :
           RequestPanelWithMultiJoints(name, edge_names)
    \/ \E name \in RequestNames : \E edge_index \in 0..4 : \E is_male \in BOOLEAN :
           RequestJointDirection(name, edge_index, is_male)

SpecRequest == InitRequest /\ [][NextRequest]_vars

----------------------------------------------------------------------------
(* One HouseGeometry object and the calls made on it.  __init__ accepts any *)
(* inputs and validates nothing; validate_geometry is a method a caller may *)
(* call (no code of the package calls it); get_panel_dimensions is what     *)
(* SVGGenerator.__init__, the panel generators and the packer read first.   *)

Max3(a, b, c) == Max2(a, Max2(b, c))
Min3(a, b, c) == Min2(a, Min2(b, c))

GeometryError(operation) == [ raised |-> "GeometryError", operation |-> operation ]
Accepted == [ raised |-> "none" ]
NotValidated == [ raised |-> "not called" ]
NoDimensions == << >>

(* validate_geometry: min_edge / 3 is kept exact by multiplying through      *)
validate_geometry(g) ==
    IF g.gable_peak_height <= 0
    THEN GeometryError("gable_calculation")
    ELSE IF g.roof_panel_left_width <= 0 \/ g.roof_panel_right_width <= 0
    THEN GeometryError("roof_calculation")
    ELSE IF g.total_gable_height > 5 * Max3(g.x, g.y, g.z)
    THEN GeometryError("proportions")
    ELSE IF 3 * g.finger_length > Min3(g.x, g.y, g.z)
    THEN GeometryError("finger_joints")
    ELSE Accepted

(* the gable shapes of Geometries, the flat gable (theta = 0) and a gable    *)
(* with tan(theta) = 144/17                                                 *)
ValidationShapes ==
    GableShapes \cup { << 6, 0, 3 >>, << 8, 0, 4 >>, << 34, 144, 145 >> }

ValidationGeometries ==
    { HouseGeometry(x, s[1], z, s[2], s[3], t, f, 0) :
          x \in { 6, 12 }, s \in ValidationShapes, z \in { 6, MaxZ },
          t \in { -2, 2 }, f \in 1..MaxHouseFinger }

InitValidate ==
    /\ geometry \in ValidationGeometries
    /\ single_joints = FALSE
    /\ panels = [ p \in Panels |-> NotGenerated ]
    /\ jpc = "idle"
    /\ edge_length = 0
    /\ offset = 0
    /\ direct = FALSE
    /\ joint_count = 0
    /\ optimal_count = 0
    /\ retries = 0
    /\ joint_positions = NoJoints
    /\ pack = PackIdle
    /\ request = RequestIdle
    /\ validation = [ pc |-> "constructed", outcome |-> NotValidated,
                      panel_dimensions |-> NoDimensions ]

(* geometry.validate_geometry()                                             *)
ValidateGeometry ==
    /\ validation.pc = "constructed"
    /\ validation.outcome = NotValidated
    /\ validation' = [ validation EXCEPT !.outcome = validate_geometry(geometry) ]
    /\ UNCHANGED << geometry, single_joints, jointVars, panels, pack, request >>

(* geometry.get_panel_dimensions(), by a caller that stops at an exception   *)
GetPanelDimensions ==
    /\ validation.pc = "constructed"
    /\ validation.outcome.raised # "GeometryError"
    /\ validation.panel_dimensions = NoDimensions
    /\ validation' = [ validation EXCEPT
                         !.panel_dimensions = get_panel_dimensions(geometry) ]
    /\ UNCHANGED << geometry, single_joints, jointVars, panels, pack, request >>

NextValidate == ValidateGeometry \/ GetPanelDimensions

SpecValidate == InitValidate /\ [][NextValidate]_vars

----------------------------------------------------------------------------
(* Properties of the distribution algorithm (checked under SpecJoint)       *)

Returned == jpc = "done"
FromOptimalCount == Returned /\ ~direct
F == geometry.finger_length

(* gaps of a joint set on an edge [off, L + off]: before the first joint,    *)
(* between neighbours, after the last; each as a numerator over js.den      *)
GapsOf(js, L, off) ==
    { js.pos[1][1] - off * js.den, (L + off) * js.den - js.pos[js.count][2] }
    \cup { js.pos[i + 1][1] - js.pos[i][2] : i \in 1..(js.count - 1) }

(* C4: for L >= 2.5*F and not in single-joint mode, the count followed by    *)
(* the positions returns 1, 3, 5 or 7 joints: never an even number, never 0. *)
C4_OddJointCount ==
    (FromOptimalCount /\ ~single_joints /\ 10 * edge_length >= 25 * F)
        => /\ joint_positions.count \in {1, 3, 5, 7}
           /\ Len(joint_positions.pos) = joint_positions.count

C4_Witness ==
    /\ FromOptimalCount /\ ~single_joints /\ 10 * edge_length >= 25 * F
    /\ Len(joint_positions.pos) = 5

(* C5: for any returned joint set (any L, single-joint mode or not),         *)
(* count * F <= L, and with more than one joint every gap (before the first, *)
(* between neighbours, after the last) is >= 0.3*F.                         *)
C5_CoverageBound ==
    FromOptimalCount
        => /\ joint_positions.count * F <= edge_length
           /\ joint_positions.count > 1
                => \A gap \in GapsOf(joint_positions, edge_length, offset) :
                       10 * gap >= 3 * F * joint_positions.den

(* C10: in single-joint mode, or when L < 2.5*F, exactly one joint           *)
(* [(L-F)/2 + offset, (L-F)/2 + F + offset] is returned.                     *)
C10_SingleCenteredJoint ==
    (FromOptimalCount /\ (single_joints \/ 10 * edge_length < 25 * F))
        => /\ joint_positions.count = 1
           /\ Len(joint_positions.pos) = 1
           /\ 2 * joint_positions.pos[1][1]
                  = joint_positions.den * ((edge_length - F) + 2 * offset)
           /\ 2 * joint_positions.pos[1][2]
                  = joint_positions.den * ((edge_length - F) + 2 * F + 2 * offset)

(* the spec's scenario: L = 100, F = 10, single-joint mode gives [(45, 55)]  *)
C10_Witness ==
    /\ FromOptimalCount /\ single_joints
    /\ edge_length = 100 /\ F = 10 /\ offset = 0
    /\ joint_positions.pos = << << 45 * joint_positions.den, 55 * joint_positions.den >> >>

----------------------------------------------------------------------------
(* Properties of the generated panels (checked under Spec)                  *)

(* the mating pairs: <<panel A, edge A, panel B, edge B>>                    *)
FloorWallPairs ==
    { << "floor", "bottom", "gable_wall_front", "bottom" >>,
      << "floor", "top", "gable_wall_back", "bottom" >>,
      << "floor", "right", "side_wall_right", "bottom" >>,
      << "floor", "left", "side_wall_left", "bottom" >> }

WallWallPairs ==
    { << "side_wall_left", "right", "gable_wall_front", "left" >>,
      << "side_wall_left", "left", "gable_wall_back", "right" >>,
      << "side_wall_right", "left", "gable_wall_front", "right" >>,
      << "side_wall_right", "right", "gable_wall_back", "left" >> }

RoofRoofPairs ==
    { << "roof_panel_right", "gable_edge", "roof_panel_left", "gable_edge" >> }

MatingPairs == FloorWallPairs \cup WallWallPairs \cup RoofRoofPairs

BothGenerated(m) == panels[m[1]].generated /\ panels[m[3]].generated

EdgeOf(panel_name, edge_name) ==
    LET es == panels[panel_name].edges
    IN  es[CHOOSE i \in DOMAIN es : es[i].edge_name = edge_name]

EdgeA(m) == EdgeOf(m[1], m[2])
EdgeB(m) == EdgeOf(m[3], m[4])

Configured(e, joint_type) ==
    IF joint_type = Male THEN e.has_joint /\ e.is_male
    ELSE IF joint_type = Female THEN e.has_joint /\ ~e.is_male
    ELSE ~e.has_joint

(* C1: in every mating pair the first edge is generated Male and its mate    *)
(* Female (never Male-Male or Female-Female), and every Male edge other     *)
(* than the gable walls' roof edges (which mate with the roof panels'       *)
(* internal cutouts) is the Male side of one of the pairs.                  *)
C1_PolarityReciprocity ==
    /\ \A m \in MatingPairs :
           BothGenerated(m) => Configured(EdgeA(m), Male) /\ Configured(EdgeB(m), Female)
    /\ \A p \in Panels :
           panels[p].generated =>
               \A i \in DOMAIN panels[p].edges :
                   LET e == panels[p].edges[i]
                   IN  (Configured(e, Male) /\ e.edge_name \notin { "roof_left", "roof_right" })
                           => \E m \in MatingPairs : m[1] = p /\ m[2] = e.edge_name

C1_Witness == \A m \in MatingPairs : BothGenerated(m)

(* the kerf that _calculate_derived_dimensions added to the dimension an    *)
(* edge is built from: the side walls (x_kerf, z_kerf) and the gable walls' *)
(* bottom (y_kerf + 2*thickness); the floor and the gable walls' vertical   *)
(* edges use x, y, z.                                                       *)
KerfIn(panel_name, edge_name) ==
    IF /\ geometry.kerf > 0
       /\ \/ panel_name \in { "side_wall_left", "side_wall_right" }
          \/ IsGableWall(panel_name) /\ edge_name = "bottom"
    THEN geometry.kerf ELSE 0

HasJoints(e) == e.joints.count > 0

(* the length the edge's joints are distributed along, before kerf          *)
NominalLength(panel_name, edge_name) ==
    EdgeOf(panel_name, edge_name).calc_length - KerfIn(panel_name, edge_name)

Jointed(m) == BothGenerated(m) /\ HasJoints(EdgeA(m)) /\ HasJoints(EdgeB(m))

EqualNominal(m) == NominalLength(m[1], m[2]) = NominalLength(m[3], m[4])

(* C2: for every floor-wall and wall-wall mating pair, and all x, y, z, the  *)
(* Male edge's and the Female edge's joints are distributed along the same  *)
(* nominal (before kerf) length.                                            *)
C2_EqualNominalLength ==
    \A m \in FloorWallPairs \cup WallWallPairs : Jointed(m) => EqualNominal(m)

(* offset of a joint position from the midpoint of its physical edge, as a  *)
(* numerator over 2 * e.joints.den                                          *)
MidOffset(e, i, k) == 2 * e.joints.pos[i][k] - e.joints.den * e.edge_length

SameJoints(a, b) ==
    /\ a.joints.count = b.joints.count
    /\ \A i \in 1..Min2(a.joints.count, b.joints.count) : \A k \in 1..2 :
           MidOffset(a, i, k) * b.joints.den = MidOffset(b, i, k) * a.joints.den

(* C3: two mating edges of equal nominal length get the same number of       *)
(* joints at the same offsets from their edge midpoints, for every kerf >= 0. *)
C3_TabMeetsSlot ==
    \A m \in MatingPairs :
        (Jointed(m) /\ EqualNominal(m)) => SameJoints(EdgeA(m), EdgeB(m))

(* C6: male thickness = thickness + kerf, female thickness = thickness -    *)
(* kerf, they differ by 2 * kerf, and every emitted joint is extruded by    *)
(* the male thickness on a Male edge and the female thickness on a Female   *)
(* edge, whatever the panel or edge.                                        *)
C6_KerfSymmetry ==
    /\ male_thickness(geometry) - female_thickness(geometry) = 2 * geometry.kerf
    /\ \A p \in Panels :
           panels[p].generated =>
               \A i \in DOMAIN panels[p].edges :
                   LET e == panels[p].edges[i]
                   IN  HasJoints(e) =>
                           e.thickness = IF e.is_male
                                         THEN geometry.thickness + geometry.kerf
                                         ELSE geometry.thickness - geometry.kerf

C6_Witness ==
    /\ geometry.kerf > 0
    /\ \A p \in Panels : panels[p].generated
    /\ \E p \in Panels : \E i \in DOMAIN panels[p].edges :
           HasJoints(panels[p].edges[i]) /\ ~panels[p].edges[i].is_male
    /\ \E p \in Panels : \E i \in DOMAIN panels[p].edges :
           HasJoints(panels[p].edges[i]) /\ panels[p].edges[i].is_male

----------------------------------------------------------------------------
(* Properties of the layout packer (checked under SpecPack)                 *)

LayoutEnded == pack.pc \in { "returned", "GeometryError" }

(* one rectangle lies entirely left of, right of, above or below the other  *)
(* by at least the spacing                                                  *)
Separated(r1, r2, spacing) ==
    \/ r1[1] + r1[3] + spacing <= r2[1]
    \/ r2[1] + r2[3] + spacing <= r1[1]
    \/ r1[2] + r1[4] + spacing <= r2[2]
    \/ r2[2] + r2[4] + spacing <= r1[2]

WithinWidth(r) == r[1] + r[3] <= pack.material_width

AllWidthsFit ==
    \A name \in Panels : get_panel_dimensions(geometry)[name][1] <= pack.material_width

(* C7: after every placement step and in the returned layout, any two        *)
(* placed rectangles are separated by at least max(spacing, 2), also when    *)
(* the fallback placement was used.                                         *)
C7_PackerNonOverlap ==
    pack.pc # "idle" =>
        \A i \in DOMAIN pack.placed_rects : \A j \in DOMAIN pack.placed_rects :
            i < j => Separated(pack.placed_rects[i], pack.placed_rects[j], pack.min_spacing)

C7_Witness ==
    /\ pack.pc = "placing"
    /\ pack.fallback_used
    /\ Len(pack.placed_rects) = Len(PanelOrder)

(* C8: a returned layout has x + width <= W for every placed rectangle; a    *)
(* layout with a rectangle beyond W ends in GeometryError, also when the     *)
(* width-unaware fallback placed it.                                        *)
C8_PackerWidthConstraint ==
    /\ pack.pc = "returned" =>
           \A i \in DOMAIN pack.placed_rects : WithinWidth(pack.placed_rects[i])
    /\ (LayoutEnded /\ \E i \in DOMAIN pack.placed_rects : ~WithinWidth(pack.placed_rects[i]))
           => pack.pc = "GeometryError"

C8_Witness ==
    /\ pack.pc = "GeometryError"
    /\ pack.fallback_used
    /\ \E i \in DOMAIN pack.placed_rects : ~WithinWidth(pack.placed_rects[i])

(* C9: when every panel's width is <= W, every panel is placed and a layout  *)
(* is returned: GeometryError only when a single panel is wider than W.      *)
C9_FailsOnlyWhenPanelTooWide ==
    (LayoutEnded /\ AllWidthsFit)
        => pack.pc = "returned" /\ Len(pack.placed_rects) = Len(PanelOrder)

----------------------------------------------------------------------------
(* Properties of the gable walls' edges (checked under Spec)                *)

GableWalls == { "gable_wall_front", "gable_wall_back" }
GableRoofEdges == { "roof_left", "roof_right" }

(* C11: the roof edges (roof_left, roof_right) of both gable walls carry     *)
(* exactly one joint, whatever the edge's length and in both joint modes.    *)
C11_GableRoofEdgeOneJoint ==
    \A p \in GableWalls :
        panels[p].generated =>
            \A en \in GableRoofEdges : EdgeOf(p, en).joints.count = 1

(* the distribution of an edge of the given length with no offset: the      *)
(* optimal count for that length, then calculate_joint_positions            *)
DistributionFor(length) ==
    calculate_joint_positions(length,
        calculate_optimal_joint_count(length, geometry.finger_length, single_joints),
        0, geometry.finger_length)

(* js is the joint set d with every start and end moved by shift            *)
ShiftedBy(js, d, shift) ==
    /\ js.count = d.count
    /\ js.den = d.den
    /\ \A i \in 1..d.count : \A k \in 1..2 :
           js.pos[i][k] = d.pos[i][k] + shift * d.den

(* C12: the joints emitted on the bottom edge of a gable wall are exactly    *)
(* the distribution computed for (physical edge length - 2 * thickness),    *)
(* every start and end moved by + thickness; the count is the one decided   *)
(* from the reduced length, not from the physical length.                   *)
C12_GableBottomOffset ==
    \A p \in GableWalls :
        panels[p].generated =>
            LET e == EdgeOf(p, "bottom")
            IN  HasJoints(e) =>
                    ShiftedBy(e.joints,
                              DistributionFor(e.edge_length - 2 * geometry.thickness),
                              geometry.thickness)

(* both gable walls generated, the bottom edges carrying several joints,    *)
(* fewer than the physical length would have been given                     *)
C12_Witness ==
    \A p \in GableWalls :
        /\ panels[p].generated
        /\ EdgeOf(p, "bottom").joints.count >= 3
        /\ EdgeOf(p, "bottom").joints.count
               < DistributionFor(EdgeOf(p, "bottom").edge_length).count

----------------------------------------------------------------------------
(* Properties of the joint direction (checked under Spec)                   *)

(* cross product (b - a) x (pt - a): positive when pt lies to the left of    *)
(* the directed line a -> b                                                 *)
Cross(a, b, pt) ==
    (b[1] - a[1]) * (pt[2] - a[2]) - (b[2] - a[2]) * (pt[1] - a[1])

(* The corner lists are convex and run counter-clockwise in (x, y): a point  *)
(* is strictly inside the outline when it is left of every edge, strictly   *)
(* outside when it is right of some edge.  Coordinates here are four times  *)
(* the real ones (twice the model's doubled corners).                       *)
Corner4(panel_name, i) ==
    LET c == panels[panel_name].corners[i] IN << 2 * c[1], 2 * c[2] >>

NextCorner(panel_name, i) == (i % Len(panels[panel_name].corners)) + 1

InsideOutline(panel_name, pt) ==
    \A i \in DOMAIN panels[panel_name].corners :
        Cross(Corner4(panel_name, i), Corner4(panel_name, NextCorner(panel_name, i)), pt) > 0

OutsideOutline(panel_name, pt) ==
    \E i \in DOMAIN panels[panel_name].corners :
        Cross(Corner4(panel_name, i), Corner4(panel_name, NextCorner(panel_name, i)), pt) < 0

(* the midpoint of edge i moved a quarter unit along the direction the      *)
(* edge's joints are extruded in                                            *)
ExtrudedPoint(panel_name, i) ==
    LET a == panels[panel_name].corners[i]
        b == panels[panel_name].corners[NextCorner(panel_name, i)]
        e == panels[panel_name].edges[i]
    IN  << a[1] + b[1] + e.vx, a[2] + b[2] + e.vy >>

(* C13: on every axis-aligned edge of every panel, walked in corner-list     *)
(* order, a Male joint (of positive thickness) is extruded to the outside   *)
(* of the panel outline and a Female joint to the inside; and on every edge *)
(* of every panel the resolver's result for Female is the negation of its   *)
(* result for Male.                                                         *)
C13_JointDirection ==
    /\ \A p \in Panels :
           panels[p].generated =>
               \A i \in DOMAIN panels[p].edges :
                   LET e == panels[p].edges[i]
                   IN  (HasJoints(e) /\ ~e.sloped /\ e.thickness > 0) =>
                           IF e.is_male THEN OutsideOutline(p, ExtrudedPoint(p, i))
                           ELSE InsideOutline(p, ExtrudedPoint(p, i))
    /\ \A p \in Panels : \A i \in 0..4 : \A en \in { "bottom", "right", "top", "left" } :
           get_joint_direction(p, en, i, FALSE) = -get_joint_direction(p, en, i, TRUE)

(* every panel generated; Male and Female joints on the floor, the walls    *)
(* and the two roof panels                                                  *)
C13_Witness ==
    /\ \A p \in Panels : panels[p].generated
    /\ HasJoints(EdgeOf("floor", "bottom"))
    /\ HasJoints(EdgeOf("side_wall_left", "bottom"))
    /\ HasJoints(EdgeOf("gable_wall_front", "right"))
    /\ HasJoints(EdgeOf("roof_panel_left", "gable_edge"))
    /\ HasJoints(EdgeOf("roof_panel_right", "gable_edge"))

----------------------------------------------------------------------------
(* Properties of the roof panels' internal cutouts (checked under Spec)     *)

RoofPanels == { "roof_panel_left", "roof_panel_right" }

(* the panel length, doubled: the x extent of the corner list               *)
PanelLength2(panel_name) == panels[panel_name].corners[2][1]

(* C19: a roof panel's outline holds exactly two internal cutouts, the       *)
(* first centred 2.5 * thickness from the start of the panel length and the *)
(* second 2.5 * thickness from its end; and each cutout's centre on         *)
(* roof_panel_left lies exactly one thickness further from the panel origin *)
(* than on roof_panel_right, for all dimensions and kerf.                   *)
C19_RoofCutouts ==
    /\ \A p \in RoofPanels :
           panels[p].generated =>
               /\ Len(panels[p].cutouts) = 2
               /\ panels[p].cutouts[1].center_x2 = 5 * geometry.thickness
               /\ panels[p].cutouts[2].center_x2 = PanelLength2(p) - 5 * geometry.thickness
               /\ panels[p].cutouts[1].center_y2 = panels[p].cutouts[2].center_y2
    /\ (\A p \in RoofPanels : panels[p].generated) =>
           \A i \in 1..2 :
               panels["roof_panel_left"].cutouts[i].center_y2
                   - panels["roof_panel_right"].cutouts[i].center_y2
                       = 2 * geometry.thickness

(* both roof panels generated from a geometry with kerf, each with its two  *)
(* cutouts                                                                  *)
C19_Witness ==
    /\ geometry.kerf > 0
    /\ \A p \in RoofPanels : panels[p].generated /\ Len(panels[p].cutouts) = 2
    /\ \A p \in Panels \ RoofPanels : ~panels[p].generated

----------------------------------------------------------------------------
(* Properties of the entry points' error handling (checked under            *)
(* SpecRequest)                                                             *)

GenerationEntries ==
    { "generate_wall_panel", "generate_gable_wall_panel", "generate_roof_panel",
      "_generate_panel_with_multi_joints" }

GenerationEnded == request.pc = "done" /\ request.entry \in GenerationEntries

HasRaised(result) == "raised" \in DOMAIN result

(* C14: the joint direction resolver raises an error for a panel name that   *)
(* is not one of the seven standard panels; it never returns a direction    *)
(* for such a name.                                                         *)
C14_ResolverRejectsUnknownPanel ==
    (/\ request.pc = "done"
     /\ request.entry = "_get_joint_direction"
     /\ request.panel_name \notin Panels)
        => HasRaised(request.result)

(* C15: a request for a panel whose name is absent from the joint            *)
(* configuration table ends in FingerJointError and produces no outline,    *)
(* through every panel generation entry point.                              *)
C15_MissingPanelFingerJointError ==
    (GenerationEnded /\ request.panel_name \notin DOMAIN get_finger_joint_configuration)
        => request.result = Raised("FingerJointError")

(* C16: a panel one of whose edge names has no entry in that panel's joint   *)
(* configuration ends in FingerJointError; no outline is produced with such *)
(* an edge.                                                                 *)
C16_MissingEdgeFingerJointError ==
    (GenerationEnded /\ request.result.generated) =>
        \A i \in DOMAIN request.result.edges :
            request.result.edges[i].edge_name
                \in DOMAIN get_finger_joint_configuration[request.panel_name]

----------------------------------------------------------------------------
(* Properties of geometry validation (checked under SpecValidate)           *)

DimensionsProduced == validation.panel_dimensions # NoDimensions

NonPositiveOrDisproportionate ==
    \/ geometry.gable_peak_height <= 0
    \/ geometry.roof_panel_left_width <= 0
    \/ geometry.roof_panel_right_width <= 0
    \/ geometry.total_gable_height > 5 * Max3(geometry.x, geometry.y, geometry.z)

(* C17: from a geometry whose gable peak height or roof panel width is       *)
(* non-positive, or whose total gable height exceeds 5 * max(x, y, z), no   *)
(* panel dimensions are produced: such a geometry is rejected with          *)
(* GeometryError.                                                           *)
C17_InvalidGeometryRejected ==
    NonPositiveOrDisproportionate => ~DimensionsProduced

(* C18: a geometry accepted by validation has finger_length strictly below   *)
(* min(x, y, z) / 3; a finger length of one third of the smallest dimension *)
(* or more is rejected with GeometryError.                                  *)
C18_FingerLengthStrictlyBelowThird ==
    /\ validation.outcome = Accepted
           => 3 * geometry.finger_length < Min3(geometry.x, geometry.y, geometry.z)
    /\ (/\ validation.outcome # NotValidated
        /\ 3 * geometry.finger_length >= Min3(geometry.x, geometry.y, geometry.z))
           => validation.outcome.raised = "GeometryError"

----------------------------------------------------------------------------
(* Properties of the sheet height (checked under SpecSheet)                 *)

(* C20: the sheet-height reference is soft.  Two calls of                   *)
(* calculate_layout_positions on the same panels, spacing and material      *)
(* width that differ only in the material height end the same way with the  *)
(* same positions; and a call raises GeometryError only for a width (a      *)
(* panel or the layout wider than the material), whatever the height.       *)
C20_SheetHeightSoft ==
    /\ (LayoutEnded /\ pack.previous # NoRun) =>
           /\ pack.previous.material_height # pack.material_height
           /\ pack.pc = pack.previous.pc
           /\ pack.positions = pack.previous.positions
           /\ pack.placed_names = pack.previous.placed_names
    /\ pack.pc = "GeometryError" =>
           \/ PanelTooWide(get_panel_dimensions(geometry), pack.material_width)
           \/ LayoutTooWide(pack.placed_rects, pack.material_width)

(* both calls returned a layout taller than either sheet height, and the     *)
(* sheets they report differ                                                *)
C20_Witness ==
    /\ pack.pc = "returned"
    /\ pack.previous # NoRun
    /\ pack.previous.pc = "returned"
    /\ MaxBottom(pack.placed_rects) > MaxMaterialHeight
    /\ pack.sheets_needed # pack.previous.sheets_needed

----------------------------------------------------------------------------
(* Order independence of panel generation (checked under Spec)              *)

(* what the panel's entry point returns when it is the only call made        *)
GeneratedAlone(panel_name) ==
    IF panel_name = "floor" THEN generate_floor_panel(geometry, single_joints)
    ELSE IF panel_name \in { "side_wall_left", "side_wall_right" }
         THEN generate_wall_panel(geometry, single_joints, panel_name)
    ELSE IF panel_name \in GableWalls
         THEN generate_gable_wall_panel(geometry, single_joints, panel_name)
    ELSE generate_roof_panel(geometry, single_joints, panel_name)

----------------------------------------------------------------------------
(* The joint count formula (checked under SpecJoint)                        *)

CountComputed == optimal_count # 0

(* N joints of length F, N-1 spacings of 0.8*F and an end reserve of F fit   *)
(* in L: N*F + (N-1)*0.8*F + F <= L, in tenths                               *)
Fits(N, L) == 10 * N * F + 8 * (N - 1) * F + 10 * F <= 10 * L

(* C22: not in single-joint mode and with L >= 2.5*F,                        *)
(* calculate_optimal_joint_count returns the largest N of 7, 5, 3 for which  *)
(* N joints, N-1 spacings of 0.8*F and an end reserve of F fit in L, and 1   *)
(* when not even 3 fit; never more than 7.                                  *)
C22_JointCountFormula ==
    (CountComputed /\ ~single_joints /\ 10 * edge_length >= 25 * F)
        => /\ optimal_count \in { 1, 3, 5, 7 }
           /\ optimal_count > 1 => Fits(optimal_count, edge_length)
           /\ \A N \in { 3, 5, 7 } :
                  (N > optimal_count) => ~Fits(N, edge_length)

(* a count of 5 on the shortest edge that takes 5 joints: L = 9.2*F with     *)
(* F = 5, one unit short of which the count is 3                            *)
C22_Witness ==
    /\ CountComputed /\ ~single_joints
    /\ F = 5 /\ edge_length = 46
    /\ optimal_count = 5

----------------------------------------------------------------------------
(* Termination of the gap retry (checked under SpecJointFair)               *)

InPositions == jpc = "positions"
Odd(n) == n % 2 = 1

(* C23: calculate_joint_positions called with any count N >= 1 terminates.   *)
(* Whenever the count is above 1 and the equal gap (L - N*F)/(N+1) is below  *)
(* 0.3*F the call retries with max(1, N-2), and it retries only then; each   *)
(* retry strictly lowers the count, never below 1, and keeps an odd count    *)
(* odd; every call ends by returning a joint set.                           *)
C23_GapRetryTerminates ==
    /\ InPositions ~> Returned
    /\ [](Returned => /\ joint_positions.count >= 1
                       /\ Len(joint_positions.pos) = joint_positions.count
                       /\ joint_positions.count = joint_count)
    /\ [][ /\ (InPositions /\ joint_count # 1
                    /\ GapTooSmall(edge_length, joint_count, F))
                  => /\ retries' = retries + 1
                     /\ joint_count' = Max2(1, joint_count - 2)
           /\ (retries' # retries)
                  => /\ GapTooSmall(edge_length, joint_count, F)
                     /\ joint_count' < joint_count
                     /\ joint_count' >= 1
                     /\ Odd(joint_count) => Odd(joint_count') ]_vars

(* a call with 7 joints that retried twice and returned 3 joints             *)
C23_Witness ==
    /\ Returned /\ direct
    /\ retries = 2
    /\ joint_positions.count = 3

----------------------------------------------------------------------------
(* Shape of a returned joint set (checked under SpecJoint)                  *)

JointStart(i) == joint_positions.pos[i][1]
JointEnd(i) == joint_positions.pos[i][2]

(* C24: bilateral symmetry.  A joint set returned for edge length L with     *)
(* offset 0 mirrors about the edge midpoint: start(i) + end(N-1-i) = L for   *)
(* every joint i, and with an odd count the middle joint is centred at L/2.  *)
C24_BilateralSymmetry ==
    (Returned /\ offset = 0)
        => LET N == joint_positions.count
               middle == (N + 1) \div 2
           IN  /\ \A i \in 1..N :
                      JointStart(i) + JointEnd(N + 1 - i)
                          = edge_length * joint_positions.den
               /\ Odd(N) => JointStart(middle) + JointEnd(middle)
                                = edge_length * joint_positions.den

(* five joints from the optimal count on an edge whose gaps are fractional   *)
C24_Witness ==
    /\ FromOptimalCount /\ offset = 0
    /\ joint_positions.count = 5
    /\ (edge_length - 5 * F) % 6 # 0
(* C25: well-formed joint set.  For any edge length L >= F the returned      *)
(* joints are (start, end) pairs each of length exactly F, in strictly       *)
(* increasing order, pairwise non-overlapping, and all within                *)
(* [offset, L + offset].                                                    *)
C25_WellFormedJointSet ==
    (Returned /\ edge_length >= F)
        => LET N == joint_positions.count
               den == joint_positions.den
           IN  /\ N = Len(joint_positions.pos)
               /\ \A i \in 1..N : JointEnd(i) - JointStart(i) = F * den
               /\ \A i \in 1..N, j \in 1..N :
                      i < j => /\ JointStart(i) < JointStart(j)
                               /\ JointEnd(i) <= JointStart(j)
               /\ \A i \in 1..N : /\ JointStart(i) >= offset * den
                                   /\ JointEnd(i) <= (edge_length + offset) * den

(* a call that had to retry and then returned several joints, shifted by a   *)
(* positive offset                                                          *)
C25_Witness ==
    /\ Returned /\ edge_length >= F
    /\ retries >= 1 /\ offset > 0
    /\ joint_positions.count >= 3

----------------------------------------------------------------------------
(* The closed outline (checked under Spec)                                  *)

(* the four points of joint j on an edge's path: joint start on the edge,    *)
(* joint start extruded, joint end extruded, joint end on the edge          *)
FourPointsOfJoint(parts, js, j) ==
    /\ parts[4 * j - 3] = [ at |-> js.pos[j][1], extruded |-> FALSE ]
    /\ parts[4 * j - 2] = [ at |-> js.pos[j][1], extruded |-> TRUE ]
    /\ parts[4 * j - 1] = [ at |-> js.pos[j][2], extruded |-> TRUE ]
    /\ parts[4 * j] = [ at |-> js.pos[j][2], extruded |-> FALSE ]

(* the path's points lie between the edge's start and its end corner         *)
WithinEdge(g, e, parts) ==
    IF e.from_midpoint
    THEN 4 * g.finger_length * g.finger_length <= e.len_sq4
    ELSE /\ parts[1].at >= 0
         /\ parts[Len(parts)].at <= e.edge_length * e.joints.den

WellFormedEdgePath(g, e, ep) ==
    IF e.joints.count = 0
    THEN ep.parts = << >>
    ELSE /\ Len(ep.parts) = 4 * e.joints.count
         /\ \A j \in 1..e.joints.count : FourPointsOfJoint(ep.parts, e.joints, j)
         /\ \A k \in 1..(Len(ep.parts) - 1) : ep.parts[k].at <= ep.parts[k + 1].at
         /\ WithinEdge(g, e, ep.parts)

(* C26: closed outline.  A generated panel's path starts with a move to the  *)
(* first corner; each edge, in corner-list order, contributes one straight   *)
(* segment when it has no joint, else per joint the four points joint start  *)
(* on the edge, joint start extruded, joint end extruded, joint end on the   *)
(* edge, with the distance along the edge never decreasing; every edge's     *)
(* last point is its end corner, the last edge ends at the first corner,     *)
(* and the path is closed.                                                  *)
C26_ClosedOutline ==
    \A p \in Panels :
        panels[p].generated
            => LET panel == panels[p]
                   n == Len(panel.corners)
               IN  /\ panel.path.move_to = panel.corners[1]
                   /\ Len(panel.path.edges) = n
                   /\ \A i \in 1..n :
                          /\ WellFormedEdgePath(geometry, panel.edges[i],
                                                panel.path.edges[i])
                          /\ panel.path.edges[i].end_point
                                 = panel.corners[IF i = n THEN 1 ELSE i + 1]
                   /\ panel.path.edges[n].end_point = panel.path.move_to
                   /\ panel.path.closed

(* a gable wall whose bottom edge has three joints and whose sloped roof     *)
(* edges have one each                                                      *)
C26_Witness ==
    /\ panels["gable_wall_front"].generated
    /\ Len(panels["gable_wall_front"].path.edges[1].parts) = 12
    /\ Len(panels["gable_wall_front"].path.edges[3].parts) = 4
    /\ Len(panels["gable_wall_front"].path.edges[4].parts) = 4

----------------------------------------------------------------------------
(* The packer's choice of position and its placement order (checked under   *)
(* SpecPack)                                                                *)

(* the rectangles placed before the i-th placement                          *)
PlacedBefore(i) == SubSeq(pack.placed_rects, 1, i - 1)

(* the origin and, for every rectangle placed before, its right edge, its    *)
(* bottom edge and its bottom-right corner, each offset by the spacing       *)
CandidatesAt(i) ==
    { << 0, 0 >> }
    \cup UNION { { << r[1] + r[3] + pack.min_spacing, r[2] >>,
                   << r[1], r[2] + r[4] + pack.min_spacing >>,
                   << r[1] + r[3] + pack.min_spacing, r[2] + r[4] + pack.min_spacing >> } :
                     r \in { PlacedBefore(i)[k] : k \in 1..(i - 1) } }

(* the candidates with x + width <= W that keep the spacing to every         *)
(* rectangle placed before                                                  *)
ValidCandidatesAt(i) ==
    LET width == pack.placed_rects[i][3]
        height == pack.placed_rects[i][4]
    IN  { c \in CandidatesAt(i) :
              /\ c[1] + width <= pack.material_width
              /\ \A k \in 1..(i - 1) :
                     Separated(<< c[1], c[2], width, height >>,
                               pack.placed_rects[k], pack.min_spacing) }

(* (y, then x) of a strictly before (y, then x) of b                         *)
LowerThenLefter(a, b) == a[2] < b[2] \/ (a[2] = b[2] /\ a[1] < b[1])

(* C27: for each panel after the first, the position chosen among the        *)
(* candidates (the origin and each placed rectangle's right edge, bottom     *)
(* edge and bottom-right corner, offset by the spacing) that satisfy         *)
(* x + width <= W and keep the spacing to every placed rectangle is the      *)
(* smallest in (y, then x); it is strictly before every other valid          *)
(* candidate, so the order of enumeration cannot change it.  Every panel of  *)
(* a returned layout was placed this way.                                   *)
C27_PackerCandidateChoice ==
    /\ \A i \in 2..Len(pack.placed_rects) :
           ValidCandidatesAt(i) # {}
               => /\ pack.positions[i] \in ValidCandidatesAt(i)
                  /\ \A c \in ValidCandidatesAt(i) :
                         c # pack.positions[i] => LowerThenLefter(pack.positions[i], c)
    /\ pack.pc = "returned"
           => \A i \in 2..Len(pack.placed_rects) : ValidCandidatesAt(i) # {}

(* a returned layout in which a panel had a valid candidate further left     *)
(* but lower down than the position chosen for it                           *)
C27_Witness ==
    /\ pack.pc = "returned"
    /\ \E i \in 2..Len(pack.placed_rects) :
           \E c \in ValidCandidatesAt(i) :
               c[1] < pack.positions[i][1] /\ c[2] > pack.positions[i][2]
PlacedHeight(i) == pack.placed_rects[i][4]
PlacedArea(i) == pack.placed_rects[i][3] * pack.placed_rects[i][4]

(* the position the packer finds for a rectangle given the rectangles rects  *)
PositionGiven(width, height, rects) ==
    LET pos_2d == find_best_position_2d(width, height, rects, pack.min_spacing,
                                        pack.material_width)
    IN  IF pos_2d = NoPosition
        THEN find_best_position(width, height, rects, pack.min_spacing)
        ELSE pos_2d

(* C28: panels are placed one at a time in order of height descending, ties  *)
(* broken by area descending; each placement sees exactly the rectangles     *)
(* placed before it, and the first (tallest) panel is placed at (0, 0).      *)
C28_PackerPlacementOrder ==
    /\ [](pack.pc \in { "placing", "returned", "GeometryError" } =>
            LET n == Len(pack.placed_rects)
            IN  /\ Len(pack.placed_names) = n /\ Len(pack.positions) = n
                /\ \A i \in 1..n :
                       /\ pack.placed_rects[i] =
                              << pack.positions[i][1], pack.positions[i][2],
                                 get_panel_dimensions(geometry)[pack.placed_names[i]][1],
                                 get_panel_dimensions(geometry)[pack.placed_names[i]][2] >>
                       /\ pack.positions[i] =
                              PositionGiven(pack.placed_rects[i][3],
                                            pack.placed_rects[i][4], PlacedBefore(i))
                /\ \A i \in 1..n, j \in 1..n :
                       i < j => /\ pack.placed_names[i] # pack.placed_names[j]
                                /\ \/ PlacedHeight(i) > PlacedHeight(j)
                                   \/ /\ PlacedHeight(i) = PlacedHeight(j)
                                      /\ PlacedArea(i) >= PlacedArea(j)
                /\ n >= 1 => pack.positions[1] = << 0, 0 >>
                /\ pack.pc = "returned" => n = Len(PanelOrder))
    /\ [][ pack.placed_rects' # pack.placed_rects
              => /\ Len(pack.placed_rects') = Len(pack.placed_rects) + 1
                 /\ SubSeq(pack.placed_rects', 1, Len(pack.placed_rects))
                        = pack.placed_rects ]_vars

(* a returned layout of all seven panels with two panels of equal height,    *)
(* the one of larger area placed first                                      *)
C28_Witness ==
    /\ pack.pc = "returned"
    /\ Len(pack.placed_rects) = Len(PanelOrder)
    /\ \E i \in 1..(Len(pack.placed_rects) - 1) :
           /\ PlacedHeight(i) = PlacedHeight(i + 1)
           /\ PlacedArea(i) > PlacedArea(i + 1)

----------------------------------------------------------------------------
(* The optimal count and the gap retry (checked under SpecJoint)            *)

(* C29: the gap retry is never triggered by a count that                     *)
(* calculate_optimal_joint_count produced.  For every L >= 2.5*F and         *)
(* N = calculate_optimal_joint_count(L) the equal gap (L - N*F)/(N+1) is     *)
(* >= 0.3*F, so for any L the joint_count that get_joint_info_for_edge       *)
(* reports equals the number of entries of its joint_positions.             *)
C29_OptimalCountNeverRetried ==
    /\ (CountComputed /\ ~direct /\ 10 * edge_length >= 25 * F)
           => 10 * (edge_length - optimal_count * F) >= 3 * F * (optimal_count + 1)
    /\ ~direct => retries = 0
    /\ FromOptimalCount
           => /\ joint_positions.count = optimal_count
              /\ Len(joint_positions.pos) = optimal_count

(* seven joints on the shortest edge that takes seven, L = 12.8*F: the       *)
(* smallest gap the optimal count of 7 can leave                            *)
C29_Witness ==
    /\ FromOptimalCount /\ ~single_joints
    /\ F = 5 /\ edge_length = 64
    /\ optimal_count = 7
    /\ Len(joint_positions.pos) = 7

----------------------------------------------------------------------------
(* The minimum edge length for a joint (checked under Spec)                 *)

(* 4 * (length of edge i of a generated panel)^2, from its corners           *)
EdgeLengthSq4(panel, i) ==
    LET a == panel.corners[i]
        b == panel.corners[IF i = Len(panel.corners) THEN 1 ELSE i + 1]
    IN  (b[1] - a[1]) * (b[1] - a[1]) + (b[2] - a[2]) * (b[2] - a[2])

(* the same edge through the single-joint generator of finger_joints.py      *)
SingleJointEdge(p, i) ==
    LET panel == panels[p]
        e == panel.edges[i]
    IN  generate_edge_with_joint(geometry, panel.corners[i],
            panel.corners[IF i = Len(panel.corners) THEN 1 ELSE i + 1],
            e.has_joint, e.is_male,
            IF e.has_joint THEN get_joint_direction(p, e.edge_name, i - 1, e.is_male)
            ELSE 1)

====
